---------------------------- MODULE Spec2Model ----------------------------
(***************************************************************************)
(* Model of the three trip generators of htc-generate-random-scenario:     *)
(*   basic     : src/generante_random_trips.py                             *)
(*   segmented : src/generate_random_trips_segmented.py                    *)
(*   group     : src/generate_random_trips_segmented_group.py              *)
(* One run of one script is one behaviour: main validates its arguments,   *)
(* (segmented) parses the time slots, loads the network event by event,    *)
(* generates the trips and writes them, and cleans up on failure.          *)
(* Fractions (hours, percentages) are exact rationals <<num, den>> with    *)
(* den > 0; the inputs are dyadic so that the float arithmetic of the      *)
(* scripts is exact on them.                                               *)
(***************************************************************************)
EXTENDS Integers, Sequences, FiniteSets, TLC

VARIABLES
    args,                    \* the command line (fixed during the run)
    pc,                      \* position of the run
    status,                  \* "running" | "success" | "failed" | "uncaught"
    file,                    \* the output path: "absent" | "old" | "partial" | "complete"
    opened,                  \* this run opened the output path for writing
    removal,                 \* "none" | "removed" | "remove_failed" | "nothing_to_remove"
    node_ids,                \* loader: list of node ids
    outgoing_links,          \* loader: dict from-node -> list of link ids
    context,                 \* loader: "None" | "nodes" | "links"
    pos,                     \* loader: index of the next event of the stream
    loadResult,              \* "pending" | "index" | "None"
    time_slot_definitions,   \* result of parse_time_slots_json
    slot_i,                  \* segmented: index of the slot being allocated
    all_trip_start_times,    \* segmented: the start-time pool
    trips_allocated_count,   \* segmented: sum of the quotas so far
    trip_is_od_equal_flags,  \* segmented: shuffled O=D flags
    fillEntered,             \* segmented: the shortfall loop body has run
    i,                       \* number of trips generated so far
    origin_node, link_origin, destination_node, attempts,
    aggregated_trips_map,    \* group: dict as a list of entries in insertion order
    raw,                     \* group: history of the raw trips drawn
    final_trips,             \* group: the sorted, named list handed to the writer
    out                      \* the trip records written to the output file

vars == << args, pc, status, file, opened, removal, node_ids, outgoing_links,
           context, pos, loadResult, time_slot_definitions, slot_i,
           all_trip_start_times, trips_allocated_count, trip_is_od_equal_flags,
           fillEntered, i, origin_node, link_origin, destination_node, attempts,
           aggregated_trips_map, raw, final_trips, out >>

-----------------------------------------------------------------------------
(* Bounds *)

MaxTrips == 3

-----------------------------------------------------------------------------
(* Rationals <<n, d>> with d > 0 *)

RLt(a, b) == a[1] * b[2] < b[1] * a[2]
RLe(a, b) == a[1] * b[2] <= b[1] * a[2]
RAdd(a, b) == << a[1] * b[2] + b[1] * a[2], a[2] * b[2] >>
RDiv(a, b) == << a[1] * b[2], a[2] * b[1] >>       \* b > 0
RInt(n) == << n, 1 >>

\* int(x) of a float: truncation toward zero
PyInt(x) == IF x[1] >= 0 THEN x[1] \div x[2] ELSE -((-x[1]) \div x[2])

\* round(x) of a float: round half to even
PyRound(x) ==
    LET q == x[1] \div x[2]
        r == x[1] % x[2]
    IN  IF 2 * r < x[2] THEN q
        ELSE IF 2 * r > x[2] THEN q + 1
        ELSE IF q % 2 = 0 THEN q ELSE q + 1

Min(a, b) == IF a <= b THEN a ELSE b

-----------------------------------------------------------------------------
(* The network description as the stream of iterparse events *)

StartEv(tag, id, from) == [ev |-> "start", tag |-> tag, id |-> id, from |-> from]
EndEv(tag) == [ev |-> "end", tag |-> tag, id |-> "", from |-> ""]
ErrorEv == [ev |-> "error", tag |-> "", id |-> "", from |-> ""]

Elem(tag, id, from) == << StartEv(tag, id, from), EndEv(tag) >>
Region(tag, body) == << StartEv(tag, "", "") >> \o body \o << EndEv(tag) >>
Document(body) == [exists |-> TRUE, events |-> Region("network", body)]

NetTwo == Document(
    Region("nodes", Elem("node", "a", "") \o Elem("node", "b", "")) \o
    Region("links", Elem("link", "l1", "a") \o Elem("link", "l2", "a")))
NetThree == Document(
    Region("nodes", Elem("node", "a", "") \o Elem("node", "b", "") \o Elem("node", "c", "")) \o
    Region("links", Elem("link", "l1", "a") \o Elem("link", "l2", "b")))
\* one node; the second link leaves a node that is not in the nodes region
NetOne == Document(
    Region("nodes", Elem("node", "a", "")) \o
    Region("links", Elem("link", "l1", "a") \o Elem("link", "l9", "z")))
NetDup == Document(
    Region("nodes", Elem("node", "a", "") \o Elem("node", "a", "")) \o
    Region("links", Elem("link", "l1", "a")))
\* a node without id and links without from or id are skipped
NetAnon == Document(
    Region("nodes", Elem("node", "", "") \o Elem("node", "b", "")) \o
    Region("links", Elem("link", "l1", "") \o Elem("link", "", "b") \o Elem("link", "l2", "b")))
\* a links element inside the nodes element, followed by one more node
NetNested == Document(
    Region("nodes", Elem("node", "a", "") \o
                    Region("links", Elem("link", "l1", "a")) \o
                    Elem("node", "b", "")))
\* identifiers with the characters &, <, > and the double quote
NetReserved == Document(
    Region("nodes", Elem("node", "r&<>", "") \o Elem("node", "q\"t", "")) \o
    Region("links", Elem("link", "k&1", "r&<>")))
NetNoNodes == Document(
    Region("nodes", << >>) \o
    Region("links", Elem("link", "l1", "a")))
NetNoOrigin == Document(
    Region("nodes", Elem("node", "a", "") \o Elem("node", "b", "")) \o
    Region("links", Elem("link", "l1", "c")))
NetNoLinks == Document(
    Region("nodes", Elem("node", "a", "") \o Elem("node", "b", "")))
\* node and link elements outside any nodes/links region
NetNoStructure == Document(
    Elem("node", "a", "") \o Elem("link", "l1", "a"))
\* the parser raises ParseError after the first node
NetBroken == [exists |-> TRUE,
              events |-> << StartEv("network", "", ""), StartEv("nodes", "", "") >>
                         \o Elem("node", "a", "") \o << ErrorEv >>]
NetMissing == [exists |-> FALSE, events |-> << >>]

GoodNetworks == { NetTwo, NetThree, NetOne, NetDup, NetAnon, NetReserved, NetNested }
BadNetworks == { NetNoNodes, NetNoOrigin, NetNoLinks, NetNoStructure, NetBroken, NetMissing }
Networks == GoodNetworks \cup BadNetworks

-----------------------------------------------------------------------------
(* The --time-slots definition and parse_time_slots_json *)

\* k/4096 of an hour: int(H(k) * 3600) is 0, 0, 1, 2, 3, 4 for k = 0 .. 5
H(k) == << k, 4096 >>
SlotDef(s, e, p) == [start_hour |-> s, end_hour |-> e, percentage |-> p]

SlotsSingle == << SlotDef(H(0), H(3), <<1, 1>>) >>
SlotsTwo == << SlotDef(H(0), H(2), <<1, 2>>), SlotDef(H(2), H(4), <<1, 2>>) >>
SlotsUnsorted == << SlotDef(H(2), H(4), <<3, 4>>), SlotDef(H(0), H(2), <<1, 4>>) >>
SlotsRenorm == << SlotDef(H(0), H(2), <<1, 4>>), SlotDef(H(2), H(4), <<1, 2>>) >>
SlotsFour == << SlotDef(H(0), H(2), <<5, 16>>), SlotDef(H(2), H(3), <<5, 16>>),
                SlotDef(H(3), H(4), <<5, 16>>), SlotDef(H(4), H(5), <<1, 16>>) >>
\* end_hour > start_hour, but both fall in the same second
SlotsEmptyFirst == << SlotDef(H(0), H(1), <<1, 2>>), SlotDef(H(2), H(4), <<1, 2>>) >>
SlotsEmptyLast == << SlotDef(H(0), H(2), <<1, 2>>), SlotDef(H(2), <<9, 16384>>, <<1, 2>>) >>
SlotsEmptyOnly == << SlotDef(H(0), H(1), <<1, 1>>) >>
SlotsOverlap == << SlotDef(H(0), H(4), <<1, 2>>), SlotDef(H(2), H(5), <<1, 2>>) >>
\* the last two slots overlap; both start after a maximum time of 0
SlotsOverlapBeyond == << SlotDef(H(0), H(2), <<1, 1>>), SlotDef(H(2), H(5), <<1, 2>>),
                         SlotDef(H(3), H(5), <<1, 2>>) >>
SlotsBadHours == << SlotDef(H(2), H(2), <<1, 1>>) >>
SlotsBadPct == << SlotDef(H(0), H(3), <<3, 2>>) >>

GoodSlotInputs == { SlotsSingle, SlotsTwo, SlotsUnsorted, SlotsRenorm, SlotsFour }
EmptyRangeSlotInputs == { SlotsEmptyFirst, SlotsEmptyLast, SlotsEmptyOnly }
RejectedSlotInputs == { SlotsOverlap, SlotsBadHours, SlotsBadPct }
SlotInputs == GoodSlotInputs \cup EmptyRangeSlotInputs \cup RejectedSlotInputs
                \cup { SlotsOverlapBeyond }

\* list.sort(key=...) is stable: x goes after every element whose key is <= its key
InsertByStartHour(sorted, x) ==
    LET k == Cardinality({ j \in 1..Len(sorted) :
                             RLe(sorted[j].start_hour, x.start_hour) })
    IN  SubSeq(sorted, 1, k) \o << x >> \o SubSeq(sorted, k + 1, Len(sorted))

RECURSIVE SortByStartHour(_)
SortByStartHour(s) ==
    IF s = << >> THEN << >>
    ELSE InsertByStartHour(SortByStartHour(SubSeq(s, 1, Len(s) - 1)), s[Len(s)])

NoSlots == [ok |-> FALSE, slots |-> << >>]

start_sec_of(slot_def) == PyInt(<< slot_def.start_hour[1] * 3600, slot_def.start_hour[2] >>)
end_sec_of(slot_def) == PyInt(<< slot_def.end_hour[1] * 3600, slot_def.end_hour[2] >>) - 1


\* the for loop of parse_time_slots_json over the sorted input, from slot k on
RECURSIVE ParseSlotLoop(_, _, _, _, _, _)
ParseSlotLoop(inp, k, processed_slots, total_percentage, last_end_sec, max_total_time_simulation) ==
    IF k > Len(inp)
    THEN [ok |-> TRUE, slots |-> processed_slots, total |-> total_percentage]
    ELSE
      LET slot_def == inp[k]
          start_sec == start_sec_of(slot_def)
          end_sec == end_sec_of(slot_def)
      IN  IF \/ RLt(slot_def.start_hour, RInt(0))
             \/ RLe(slot_def.end_hour, slot_def.start_hour)
             \/ RLe(slot_def.percentage, RInt(0))
             \/ RLt(RInt(1), slot_def.percentage)
          THEN [ok |-> FALSE, slots |-> << >>, total |-> total_percentage]
          ELSE IF start_sec <= last_end_sec
          THEN [ok |-> FALSE, slots |-> << >>, total |-> total_percentage]
          ELSE IF start_sec > max_total_time_simulation
          THEN ParseSlotLoop(inp, k + 1, processed_slots, total_percentage,
                             last_end_sec, max_total_time_simulation)
          ELSE ParseSlotLoop(inp, k + 1,
                             Append(processed_slots,
                                    [start_sec |-> start_sec, end_sec |-> end_sec,
                                     percentage |-> slot_def.percentage]),
                             RAdd(total_percentage, slot_def.percentage),
                             end_sec, max_total_time_simulation)

\* mutant: the percentages are returned as given, whatever their sum
parse_time_slots_json_NotNormalised(slots_input, max_total_time_simulation) ==
    LET r == ParseSlotLoop(SortByStartHour(slots_input), 1, << >>, RInt(0), -1,
                           max_total_time_simulation)
    IN  IF ~r.ok \/ r.slots = << >> THEN NoSlots
        ELSE [ok |-> TRUE, slots |-> r.slots]

parse_time_slots_json(slots_input, max_total_time_simulation) ==
    LET r == ParseSlotLoop(SortByStartHour(slots_input), 1, << >>, RInt(0), -1,
                           max_total_time_simulation)
        in_tolerance == RLe(<<999, 1000>>, r.total) /\ RLe(r.total, <<1001, 1000>>)
    IN  IF ~r.ok THEN NoSlots
        ELSE IF ~in_tolerance /\ ~RLt(RInt(0), r.total) THEN NoSlots
        ELSE IF r.slots = << >> THEN NoSlots
        ELSE IF ~in_tolerance
        THEN [ok |-> TRUE,
              slots |-> [j \in 1..Len(r.slots) |->
                           [r.slots[j] EXCEPT !.percentage = RDiv(@, r.total)]]]
        ELSE [ok |-> TRUE, slots |-> r.slots]

\* main's check that some parsed slot is usable within --max-time
usable_slots_within_maxtime(slots, max_time) ==
    \E j \in 1..Len(slots) :
        /\ slots[j].start_sec <= max_time
        /\ slots[j].start_sec <= Min(slots[j].end_sec, max_time)

-----------------------------------------------------------------------------
(* The runs considered *)

Variants == { "basic", "segmented", "group" }
Fractions == { <<0, 1>>, <<1, 4>>, <<1, 2>>, <<3, 4>>, <<1, 1>> }

Run(v, n, t, m, ts, p, f) ==
    [variant |-> v, network_file |-> n, num_trips |-> t, max_time |-> m,
     time_slots |-> ts, percentage_od_equal |-> p, output_existed |-> f]

\* every script on every network
NetworkRuns ==
    { Run(v, n, t, 1, IF v = "segmented" THEN SlotsTwo ELSE << >>, p, f) :
        v \in Variants, n \in Networks, t \in 1..MaxTrips,
        p \in { <<0, 1>>, <<1, 2>> }, f \in BOOLEAN }

\* the segmented script on every time-slot definition
SlotRuns ==
    { Run("segmented", NetTwo, t, m, ts, p, FALSE) :
        t \in 1..MaxTrips, m \in { 0, 1, 3 }, ts \in SlotInputs, p \in Fractions }

\* arguments main rejects
InvalidRuns ==
    { Run(v, NetTwo, 0, 1, IF v = "segmented" THEN SlotsTwo ELSE << >>, <<0, 1>>, f) :
        v \in Variants, f \in BOOLEAN }
    \cup { Run(v, NetTwo, 1, -1, IF v = "segmented" THEN SlotsTwo ELSE << >>, <<0, 1>>, FALSE) :
        v \in Variants }
    \cup { Run("segmented", NetTwo, 1, 1, SlotsTwo, <<5, 4>>, FALSE) }

\* the aggregating script with start times of one and two digits
GroupRuns ==
    { Run("group", NetOne, t, 10, << >>, <<0, 1>>, FALSE) : t \in 1..MaxTrips }

Runs ==
    { r \in NetworkRuns \cup SlotRuns \cup GroupRuns \cup InvalidRuns :
        r.variant = "segmented" \/ r.percentage_od_equal = <<0, 1>> }

EmptyDict == [k \in {} |-> << >>]

\* the state when main starts, for a set of command lines
InitWith(runs) ==
    /\ args \in runs
    /\ pc = "main"
    /\ status = "running"
    /\ file = IF args.output_existed THEN "old" ELSE "absent"
    /\ opened = FALSE
    /\ removal = "none"
    /\ node_ids = << >>
    /\ outgoing_links = EmptyDict
    /\ context = "None"
    /\ pos = 1
    /\ loadResult = "pending"
    /\ time_slot_definitions = NoSlots
    /\ slot_i = 0
    /\ all_trip_start_times = << >>
    /\ trips_allocated_count = 0
    /\ trip_is_od_equal_flags = << >>
    /\ fillEntered = FALSE
    /\ i = 0
    /\ origin_node = ""
    /\ link_origin = ""
    /\ destination_node = ""
    /\ attempts = 0
    /\ aggregated_trips_map = << >>
    /\ raw = << >>
    /\ final_trips = << >>
    /\ out = << >>

Init == InitWith(Runs)

\* one trip on a network with two nodes, with a repeated node id, and on a
\* missing network file, for each script
FairRuns ==
    { Run(v, n, 1, 1, IF v = "segmented" THEN SlotsTwo ELSE << >>, <<0, 1>>, FALSE) :
        v \in Variants, n \in { NetTwo, NetDup, NetMissing } }

FairInit == InitWith(FairRuns)

loaderVars == << node_ids, outgoing_links, context, pos, loadResult >>
slotVars == << time_slot_definitions, slot_i, all_trip_start_times,
               trips_allocated_count, trip_is_od_equal_flags, fillEntered >>
tripVars == << i, origin_node, link_origin, destination_node, attempts >>
groupVars == << aggregated_trips_map, raw, final_trips >>
fileVars == << file, opened, removal >>

\* sys.exit(1)
Exit1 == pc' = "done" /\ status' = "failed"

-----------------------------------------------------------------------------
(* main: argument validation *)

ValidateArgs ==
    /\ pc = "main"
    /\ IF args.num_trips <= 0 THEN Exit1
       ELSE IF args.max_time < 0 THEN Exit1
       ELSE IF /\ args.variant = "segmented"
               /\ ~(RLe(RInt(0), args.percentage_od_equal)
                    /\ RLe(args.percentage_od_equal, RInt(1)))
       THEN Exit1
       ELSE /\ pc' = IF args.variant = "segmented" THEN "time_slots" ELSE "load"
            /\ status' = status
    /\ UNCHANGED << args, fileVars, loaderVars, slotVars, tripVars, groupVars, out >>

\* segmented main: parse_time_slots_json and the usable-slot check
ParseTimeSlots ==
    /\ pc = "time_slots"
    /\ LET r == parse_time_slots_json(args.time_slots, args.max_time)
       IN  /\ time_slot_definitions' = r
           /\ IF ~r.ok THEN Exit1
              ELSE IF ~usable_slots_within_maxtime(r.slots, args.max_time) THEN Exit1
              ELSE pc' = "load" /\ status' = status
    /\ UNCHANGED << args, fileVars, loaderVars, slot_i, all_trip_start_times,
                    trips_allocated_count, trip_is_od_equal_flags, fillEntered,
                    tripVars, groupVars, out >>

-----------------------------------------------------------------------------
(* parse_network_iterative *)

\* mutant: every node some link leaves counts as an origin, listed or not
valid_origin_nodes_AnyFrom(nodes, links) ==
    LET from_nodes == { k \in DOMAIN links : links[k] # << >> }
    IN  CHOOSE q \in [1..Cardinality(from_nodes) -> from_nodes] :
            { q[j] : j \in 1..Cardinality(from_nodes) } = from_nodes

valid_origin_nodes(nodes, links) ==
    SelectSeq(nodes, LAMBDA n : n \in DOMAIN links /\ links[n] # << >>)

\* outgoing_links[from_node].append(link_id), creating the list when absent
AddLink(links, from_node, link_id) ==
    [k \in DOMAIN links \cup { from_node } |->
        IF k = from_node
        THEN Append(IF from_node \in DOMAIN links THEN links[from_node] ELSE << >>, link_id)
        ELSE links[k]]

\* os.path.isfile(network_file) is false
LoadMissingFile ==
    /\ pc = "load"
    /\ ~args.network_file.exists
    /\ loadResult' = "None"
    /\ pc' = "loaded"
    /\ UNCHANGED << args, status, fileVars, node_ids, outgoing_links, context, pos,
                    slotVars, tripVars, groupVars, out >>

\* mutant: the end of a nodes or links element leaves context as it is
LoadEvent_KeepContext ==
    /\ pc = "load"
    /\ args.network_file.exists
    /\ pos <= Len(args.network_file.events)
    /\ LET e == args.network_file.events[pos]
       IN  IF e.ev = "error"
           THEN /\ loadResult' = "None"
                /\ pc' = "loaded"
                /\ UNCHANGED << node_ids, outgoing_links, context, pos >>
           ELSE /\ pos' = pos + 1
                /\ UNCHANGED << loadResult, pc >>
                /\ IF e.ev = "start"
                   THEN IF e.tag = "nodes"
                        THEN context' = "nodes" /\ UNCHANGED << node_ids, outgoing_links >>
                        ELSE IF e.tag = "links"
                        THEN context' = "links" /\ UNCHANGED << node_ids, outgoing_links >>
                        ELSE IF context = "nodes" /\ e.tag = "node"
                        THEN /\ node_ids' = IF e.id # "" THEN Append(node_ids, e.id)
                                            ELSE node_ids
                             /\ UNCHANGED << context, outgoing_links >>
                        ELSE IF context = "links" /\ e.tag = "link"
                        THEN /\ outgoing_links' =
                                   IF e.from # "" /\ e.id # ""
                                   THEN AddLink(outgoing_links, e.from, e.id)
                                   ELSE outgoing_links
                             /\ UNCHANGED << context, node_ids >>
                        ELSE UNCHANGED << context, node_ids, outgoing_links >>
                   ELSE /\ context' = context
                        /\ UNCHANGED << node_ids, outgoing_links >>
    /\ UNCHANGED << args, status, fileVars, slotVars, tripVars, groupVars, out >>

\* one iteration of the loop over the (event, elem) pairs
LoadEvent ==
    /\ pc = "load"
    /\ args.network_file.exists
    /\ pos <= Len(args.network_file.events)
    /\ LET e == args.network_file.events[pos]
       IN  IF e.ev = "error"
           THEN /\ loadResult' = "None"
                /\ pc' = "loaded"
                /\ UNCHANGED << node_ids, outgoing_links, context, pos >>
           ELSE /\ pos' = pos + 1
                /\ UNCHANGED << loadResult, pc >>
                /\ IF e.ev = "start"
                   THEN IF e.tag = "nodes"
                        THEN context' = "nodes" /\ UNCHANGED << node_ids, outgoing_links >>
                        ELSE IF e.tag = "links"
                        THEN context' = "links" /\ UNCHANGED << node_ids, outgoing_links >>
                        ELSE IF context = "nodes" /\ e.tag = "node"
                        THEN /\ node_ids' = IF e.id # "" THEN Append(node_ids, e.id)
                                            ELSE node_ids
                             /\ UNCHANGED << context, outgoing_links >>
                        ELSE IF context = "links" /\ e.tag = "link"
                        THEN /\ outgoing_links' =
                                   IF e.from # "" /\ e.id # ""
                                   THEN AddLink(outgoing_links, e.from, e.id)
                                   ELSE outgoing_links
                             /\ UNCHANGED << context, node_ids >>
                        ELSE UNCHANGED << context, node_ids, outgoing_links >>
                   ELSE /\ context' = IF e.tag \in { "nodes", "links" } THEN "None"
                                      ELSE context
                        /\ UNCHANGED << node_ids, outgoing_links >>
    /\ UNCHANGED << args, status, fileVars, slotVars, tripVars, groupVars, out >>

\* mutant: the segmented loader also returns None, None without a valid origin
LoadResultOf_AlwaysReject(variant, nodes, links) ==
    IF /\ Len(valid_origin_nodes(nodes, links)) = 0
       /\ nodes # << >>
       /\ DOMAIN links # {}
    THEN "None"
    ELSE "index"

\* the validations after the loop and the return value
LoadResultOf(variant, nodes, links) ==
    IF /\ Len(valid_origin_nodes(nodes, links)) = 0
       /\ nodes # << >>
       /\ DOMAIN links # {}
       /\ variant # "segmented"
    THEN "None"
    ELSE "index"

LoadReturn ==
    /\ pc = "load"
    /\ args.network_file.exists
    /\ pos > Len(args.network_file.events)
    /\ loadResult' = LoadResultOf(args.variant, node_ids, outgoing_links)
    /\ pc' = "loaded"
    /\ UNCHANGED << args, status, fileVars, node_ids, outgoing_links, context, pos,
                    slotVars, tripVars, groupVars, out >>

\* main: the checks on the value returned by parse_network_iterative
CheckNetwork ==
    /\ pc = "loaded"
    /\ IF loadResult = "None" THEN Exit1
       ELSE IF node_ids = << >> THEN Exit1
       ELSE IF args.variant # "segmented" /\ DOMAIN outgoing_links = {} THEN Exit1
       ELSE pc' = "generate" /\ status' = status
    /\ UNCHANGED << args, fileVars, loaderVars, slotVars, tripVars, groupVars, out >>

-----------------------------------------------------------------------------
(* Generation: common start *)

TripRecord(name, origin, destination, link, count, start) ==
    [name |-> name, origin |-> origin, destination |-> destination,
     link_origin |-> link, count |-> count, start |-> start]

is_single_node_network == Len(node_ids) = 1

\* the generator returned False: main goes on to remove the output file
ReturnFalse == pc' = "cleanup" /\ status' = status

\* mutant: the guards on the node list and the valid origins are missing
GenerateStart_NoGuards ==
    /\ pc = "generate"
    /\ pc' = CASE args.variant = "basic" -> "open"
               [] args.variant = "segmented" -> "allocate"
               [] OTHER -> "sample"
    /\ status' = status
    /\ slot_i' = IF pc' = "allocate" THEN 1 ELSE slot_i
    /\ UNCHANGED << args, fileVars, loaderVars, time_slot_definitions,
                    all_trip_start_times, trips_allocated_count,
                    trip_is_od_equal_flags, fillEntered, tripVars, groupVars, out >>

\* the two guards at the top of the generating function
GenerateStart ==
    /\ pc = "generate"
    /\ IF node_ids = << >> \/ valid_origin_nodes(node_ids, outgoing_links) = << >>
       THEN IF args.variant = "group"
            THEN Exit1            \* returns [], main exits on the empty list
            ELSE ReturnFalse
       ELSE /\ pc' = CASE args.variant = "basic" -> "open"
                       [] args.variant = "segmented" -> "allocate"
                       [] OTHER -> "sample"
            /\ status' = status
    /\ slot_i' = IF pc' = "allocate" THEN 1 ELSE slot_i
    /\ UNCHANGED << args, fileVars, loaderVars, time_slot_definitions,
                    all_trip_start_times, trips_allocated_count,
                    trip_is_od_equal_flags, fillEntered, tripVars, groupVars, out >>

-----------------------------------------------------------------------------
(* segmented: the start-time pool and the O=D flags *)


\* mutant: the quota is truncated instead of rounded
num_in_this_slot_Truncated(k, slots, num_trips, allocated) ==
    IF k = Len(slots)
    THEN num_trips - allocated
    ELSE PyInt(<< num_trips * slots[k].percentage[1], slots[k].percentage[2] >>)


\* mutant: the last slot gets its rounded quota like the others
num_in_this_slot_RoundedLast(k, slots, num_trips, allocated) ==
    PyRound(<< num_trips * slots[k].percentage[1], slots[k].percentage[2] >>)

num_in_this_slot(k, slots, num_trips, allocated) ==
    IF k = Len(slots)
    THEN num_trips - allocated
    ELSE PyRound(<< num_trips * slots[k].percentage[1], slots[k].percentage[2] >>)

\* mutant: the end of the slot is not limited
slot_actual_end_s_Unclipped(slot, max_start_time_simulation) ==
    slot.end_sec

\* the end of the slot, limited by the maximum simulation time
slot_actual_end_s(slot, max_start_time_simulation) ==
    Min(slot.end_sec, max_start_time_simulation)

\* one iteration of the loop over time_slot_definitions
AllocateSlot ==
    /\ pc = "allocate"
    /\ slot_i <= Len(time_slot_definitions.slots)
    /\ LET slot == time_slot_definitions.slots[slot_i]
           slot_actual_start_s == slot.start_sec
           actual_end == slot_actual_end_s(slot, args.max_time)
           n == num_in_this_slot(slot_i, time_slot_definitions.slots,
                                 args.num_trips, trips_allocated_count)
       IN  IF n > 0 /\ slot_actual_start_s > actual_end
           THEN \* random.randint raises ValueError outside any try block
                /\ pc' = "done"
                /\ status' = "uncaught"
                /\ UNCHANGED << slot_i, all_trip_start_times, trips_allocated_count >>
           ELSE /\ \E draws \in [1..n -> slot_actual_start_s..actual_end] :
                      all_trip_start_times' =
                          all_trip_start_times \o [j \in 1..n |-> draws[j]]
                /\ trips_allocated_count' = trips_allocated_count + n
                /\ slot_i' = slot_i + 1
                /\ UNCHANGED << pc, status >>
    /\ UNCHANGED << args, fileVars, loaderVars, time_slot_definitions,
                    trip_is_od_equal_flags, fillEntered, tripVars, groupVars, out >>

\* the last usable slot, scanned in reverse; 0 when there is none
target_slot_for_remainder(slots, max_start_time_simulation) ==
    LET usable == { j \in 1..Len(slots) :
                      /\ slots[j].start_sec <= Min(slots[j].end_sec, max_start_time_simulation)
                      /\ slots[j].start_sec <= max_start_time_simulation }
    IN  IF usable = {} THEN 0 ELSE CHOOSE j \in usable : \A k \in usable : k <= j

\* the values the shortfall loop may append
RemainderRange(slots, max_start_time_simulation) ==
    LET t == target_slot_for_remainder(slots, max_start_time_simulation)
    IN  IF t = 0 THEN 0..max_start_time_simulation
        ELSE slots[t].start_sec..Min(slots[t].end_sec, max_start_time_simulation)

target_od_equal_trips(num_trips, single, percentage_od_equal) ==
    LET actual_percentage_od_equal == IF single THEN <<1, 1>> ELSE percentage_od_equal
    IN  PyInt(<< num_trips * actual_percentage_od_equal[1], actual_percentage_od_equal[2] >>)

\* the outcomes of random.shuffle on [True]*k + [False]*(n-k)
Shuffles(n, k) ==
    { fl \in [1..n -> BOOLEAN] : Cardinality({ j \in 1..n : fl[j] }) = k }

\* after the slot loop: the shortfall loop, the truncation and the flags
AllocateFinish ==
    /\ pc = "allocate"
    /\ slot_i > Len(time_slot_definitions.slots)
    /\ LET missing == args.num_trips - Len(all_trip_start_times)
       IN  /\ fillEntered' = (missing > 0)
           /\ \E fill \in [1..missing ->
                            RemainderRange(time_slot_definitions.slots, args.max_time)] :
                 all_trip_start_times' =
                     SubSeq(all_trip_start_times \o [j \in 1..missing |-> fill[j]],
                            1, args.num_trips)
    /\ trip_is_od_equal_flags' \in
           Shuffles(args.num_trips,
                    target_od_equal_trips(args.num_trips, is_single_node_network,
                                          args.percentage_od_equal))
    /\ pc' = "open"
    /\ UNCHANGED << args, status, fileVars, loaderVars, time_slot_definitions, slot_i,
                    trips_allocated_count, tripVars, groupVars, out >>

-----------------------------------------------------------------------------
(* Opening the output file *)

\* open(output_file, 'w') and the two header lines
OpenOutput ==
    /\ pc = "open"
    /\ \/ /\ file' = "partial" /\ opened' = TRUE      \* header written
          /\ pc' = IF args.variant = "group" THEN "write_list" ELSE "sample"
          /\ status' = status
       \/ /\ file' = "partial" /\ opened' = TRUE      \* a header write raises IOError
          /\ ReturnFalse
       \/ /\ UNCHANGED << file, opened >>            \* open itself raises IOError
          /\ ReturnFalse
    /\ i' = 0
    /\ UNCHANGED << args, removal, loaderVars, slotVars, origin_node, link_origin,
                    destination_node, attempts, groupVars, out >>

-----------------------------------------------------------------------------
(* str() and int() on decimal strings, as sequences of characters *)

Digits == << "0", "1", "2", "3", "4", "5", "6", "7", "8", "9" >>

RECURSIVE PyStr(_)
PyStr(n) ==
    IF n < 0 THEN << "-" >> \o PyStr(-n)
    ELSE IF n < 10 THEN << Digits[n + 1] >>
    ELSE PyStr(n \div 10) \o << Digits[(n % 10) + 1] >>

DigitValue(c) == (CHOOSE d \in 1..10 : Digits[d] = c) - 1

RECURSIVE IntOfStr(_)
IntOfStr(s) ==
    IF s[1] = "-" THEN -IntOfStr(Tail(s))
    ELSE IF Len(s) = 1 THEN DigitValue(s[1])
    ELSE 10 * IntOfStr(SubSeq(s, 1, Len(s) - 1)) + DigitValue(s[Len(s)])

TripName(k) == << "trip_" >> \o PyStr(k)

Range(s) == { s[j] : j \in 1..Len(s) }


-----------------------------------------------------------------------------
(* The text of a <trip> element: escape() and the attribute string *)

\* the characters of the identifiers of the networks above (a string is atomic
\* for TLC, so the characters of each identifier are listed)
Chars ==
    ("a" :> << "a" >>) @@ ("b" :> << "b" >>) @@ ("c" :> << "c" >>) @@ ("z" :> << "z" >>) @@
    ("l1" :> << "l", "1" >>) @@ ("l2" :> << "l", "2" >>) @@ ("l9" :> << "l", "9" >>) @@
    ("r&<>" :> << "r", "&", "<", ">" >>) @@ ("q\"t" :> << "q", "\"", "t" >>) @@
    ("k&1" :> << "k", "&", "1" >>)

\* str.replace(old, new) for a single character old
RECURSIVE Replace(_, _, _)
Replace(data, old, new) ==
    IF data = << >> THEN << >>
    ELSE (IF data[1] = old THEN new ELSE << data[1] >>) \o Replace(Tail(data), old, new)

\* xml.sax.saxutils.escape(data) with no entities argument
escape(data) ==
    Replace(Replace(Replace(data, "&", << "&", "a", "m", "p", ";" >>),
                    ">", << "&", "g", "t", ";" >>),
            "<", << "&", "l", "t", ";" >>)

\* k="escape(str(v))"; the attribute name is kept as one token
Attr(k, v) == << k, "=", "\"" >> \o escape(v) \o << "\"" >>

\* trip_attrs.items() in insertion order, joined with one space
attr_string(trip_attrs) ==
    Attr("name", trip_attrs.name) \o << " " >> \o
    Attr("origin", Chars[trip_attrs.origin]) \o << " " >> \o
    Attr("destination", Chars[trip_attrs.destination]) \o << " " >> \o
    Attr("link_origin", Chars[trip_attrs.link_origin]) \o << " " >> \o
    Attr("count", trip_attrs.count) \o << " " >> \o
    Attr("start", trip_attrs.start) \o << " " >> \o
    Attr("mode", << "c", "a", "r" >>) \o << " " >> \o
    Attr("digital_rails_capable", << "f", "a", "l", "s", "e" >>)

\* the lines written between the opening and the closing tag
TripLines == [k \in 1..Len(out) |-> << "  <trip " >> \o attr_string(out[k]) \o << "/>\n" >>]

-----------------------------------------------------------------------------
(* basic: generate_and_write_trips_iterative *)

\* mutant: the link is drawn from the links of any node
SampleTripBasic_AnyLink ==
    /\ pc = "sample"
    /\ args.variant = "basic"
    /\ i < args.num_trips
    /\ \E o \in Range(valid_origin_nodes(node_ids, outgoing_links)) :
         \E n \in DOMAIN outgoing_links :
           \E l \in Range(outgoing_links[n]) :
             \E d \in Range(node_ids) :
                /\ origin_node' = o
                /\ link_origin' = l
                /\ destination_node' = d
    /\ pc' = "destination"
    /\ UNCHANGED << args, status, fileVars, loaderVars, slotVars, i, attempts,
                    groupVars, out >>

\* origin, link and the first destination draw of trip i + 1
SampleTripBasic ==
    /\ pc = "sample"
    /\ args.variant = "basic"
    /\ i < args.num_trips
    /\ \E o \in Range(valid_origin_nodes(node_ids, outgoing_links)) :
         \E l \in Range(outgoing_links[o]) :
           \E d \in Range(node_ids) :
              /\ origin_node' = o
              /\ link_origin' = l
              /\ destination_node' = d
    /\ pc' = "destination"
    /\ UNCHANGED << args, status, fileVars, loaderVars, slotVars, i, attempts,
                    groupVars, out >>

\* basic and group: one iteration of the while loop that re-draws the destination
RedrawDestination ==
    /\ pc = "destination"
    /\ args.variant \in { "basic", "group" }
    /\ Len(node_ids) > 1 /\ destination_node = origin_node
    /\ destination_node' \in Range(node_ids)
    /\ UNCHANGED << args, pc, status, fileVars, loaderVars, slotVars, i, origin_node,
                    link_origin, attempts, groupVars, out >>

\* the record is written, or the write raises IOError and the function returns False
WriteRecord(rec) ==
    \/ /\ out' = Append(out, rec)
       /\ i' = i + 1
       /\ pc' = "sample"
       /\ status' = status
    \/ /\ ReturnFalse
       /\ UNCHANGED << out, i >>

WriteTripBasic ==
    /\ pc = "destination"
    /\ args.variant = "basic"
    /\ ~(Len(node_ids) > 1 /\ destination_node = origin_node)
    /\ \E start_time \in 0..args.max_time :
          WriteRecord(TripRecord(TripName(i + 1), origin_node, destination_node,
                                 link_origin, PyStr(1), PyStr(start_time)))
    /\ origin_node' = "" /\ link_origin' = "" /\ destination_node' = ""
    /\ UNCHANGED << args, fileVars, loaderVars, slotVars, attempts, groupVars >>

-----------------------------------------------------------------------------
(* segmented: the trip loop of generate_and_write_trips_iterative *)

max_attempts == Len(node_ids) + 5

SampleTripSegmented ==
    /\ pc = "sample"
    /\ args.variant = "segmented"
    /\ i < args.num_trips
    /\ IF i + 1 > Len(all_trip_start_times) \/ i + 1 > Len(trip_is_od_equal_flags)
       THEN \* IndexError, caught by except Exception
            /\ ReturnFalse
            /\ UNCHANGED << origin_node, link_origin, destination_node >>
       ELSE /\ \E o \in Range(valid_origin_nodes(node_ids, outgoing_links)) :
                \E l \in Range(outgoing_links[o]) :
                   /\ origin_node' = o
                   /\ link_origin' = l
                   /\ IF trip_is_od_equal_flags[i + 1] \/ is_single_node_network
                      THEN destination_node' = o /\ pc' = "write"
                      ELSE destination_node' \in Range(node_ids) /\ pc' = "destination"
            /\ status' = status
    /\ attempts' = 0
    /\ UNCHANGED << args, fileVars, loaderVars, slotVars, i, groupVars, out >>

\* one iteration of the bounded re-draw loop
RedrawDestinationSegmented ==
    /\ pc = "destination"
    /\ args.variant = "segmented"
    /\ destination_node = origin_node /\ attempts < max_attempts
    /\ destination_node' \in Range(node_ids)
    /\ attempts' = attempts + 1
    /\ UNCHANGED << args, pc, status, fileVars, loaderVars, slotVars, i, origin_node,
                    link_origin, groupVars, out >>


\* mutant: no draw from other_nodes after the bounded loop
FinalDestinations_NoFallback(forced, nodes, origin, destination) == { destination }

\* the destinations left after the draw from other_nodes
FinalDestinations(forced, nodes, origin, destination) ==
    LET other_nodes == SelectSeq(nodes, LAMBDA n : n # origin)
    IN  IF ~forced /\ destination = origin /\ other_nodes # << >>
        THEN Range(other_nodes)
        ELSE { destination }

WriteTripSegmented ==
    /\ args.variant = "segmented"
    /\ \/ pc = "write"
       \/ /\ pc = "destination"
          /\ ~(destination_node = origin_node /\ attempts < max_attempts)
    /\ \E d \in FinalDestinations(pc = "write", node_ids, origin_node, destination_node) :
          WriteRecord(TripRecord(TripName(i + 1), origin_node, d, link_origin,
                                 PyStr(1), PyStr(all_trip_start_times[i + 1])))
    /\ origin_node' = "" /\ link_origin' = "" /\ destination_node' = ""
    /\ attempts' = 0
    /\ UNCHANGED << args, fileVars, loaderVars, slotVars, groupVars >>

-----------------------------------------------------------------------------
(* group: generate_aggregated_and_sorted_trips and write_trips_to_xml_iterative *)

SampleTripGroup ==
    /\ pc = "sample"
    /\ args.variant = "group"
    /\ i < args.num_trips
    /\ \E o \in Range(valid_origin_nodes(node_ids, outgoing_links)) :
         \E l \in Range(outgoing_links[o]) :
           \E d \in Range(node_ids) :
              /\ origin_node' = o
              /\ link_origin' = l
              /\ destination_node' = d
    /\ pc' = "destination"
    /\ UNCHANGED << args, status, fileVars, loaderVars, slotVars, i, attempts,
                    groupVars, out >>

\* mutant: a key that is already in the map is not counted again
AddToMap_NoIncrement(map, trip_key, link) ==
    IF \E j \in 1..Len(map) : map[j].key = trip_key
    THEN map
    ELSE Append(map, [key |-> trip_key, count |-> 1, link_origin |-> link])


\* mutant: a later raw trip with the key replaces the stored link
AddToMap_LastLink(map, trip_key, link) ==
    IF \E j \in 1..Len(map) : map[j].key = trip_key
    THEN [j \in 1..Len(map) |->
            IF map[j].key = trip_key
            THEN [map[j] EXCEPT !.count = @ + 1, !.link_origin = link]
            ELSE map[j]]
    ELSE Append(map, [key |-> trip_key, count |-> 1, link_origin |-> link])

\* aggregated_trips_map[trip_key]: created with the first link, then count += 1
AddToMap(map, trip_key, link) ==
    IF \E j \in 1..Len(map) : map[j].key = trip_key
    THEN [j \in 1..Len(map) |->
            IF map[j].key = trip_key THEN [map[j] EXCEPT !.count = @ + 1] ELSE map[j]]
    ELSE Append(map, [key |-> trip_key, count |-> 1, link_origin |-> link])

AggregateTrip ==
    /\ pc = "destination"
    /\ args.variant = "group"
    /\ ~(Len(node_ids) > 1 /\ destination_node = origin_node)
    /\ \E start_time \in 0..args.max_time :
         LET trip_key == << origin_node, destination_node, start_time >>
         IN  /\ aggregated_trips_map' = AddToMap(aggregated_trips_map, trip_key, link_origin)
             /\ raw' = Append(raw, [key |-> trip_key, link_origin |-> link_origin])
    /\ i' = i + 1
    /\ pc' = "sample"
    /\ origin_node' = "" /\ link_origin' = "" /\ destination_node' = ""
    /\ UNCHANGED << args, status, fileVars, loaderVars, slotVars, attempts,
                    final_trips, out >>

\* the list built from aggregated_trips_map.items(), start still an integer
processed_trips_list(map) ==
    [j \in 1..Len(map) |->
        [origin |-> map[j].key[1], destination |-> map[j].key[2],
         start |-> map[j].key[3], count |-> map[j].count,
         link_origin |-> map[j].link_origin]]

\* mutant: the list is left in the insertion order of the map
SortByStart_Unsorted(s) == s

\* list.sort(key=lambda x: x['start']) is stable
InsertByStart(sorted, x) ==
    LET k == Cardinality({ j \in 1..Len(sorted) : sorted[j].start <= x.start })
    IN  SubSeq(sorted, 1, k) \o << x >> \o SubSeq(sorted, k + 1, Len(sorted))

RECURSIVE SortByStart(_)
SortByStart(s) ==
    IF s = << >> THEN << >>
    ELSE InsertByStart(SortByStart(SubSeq(s, 1, Len(s) - 1)), s[Len(s)])


\* mutant: a record is named by the position of its key in aggregated_trips_map
final_trips_for_xml_NamedBeforeSort(sorted) ==
    [j \in 1..Len(sorted) |->
        TripRecord(TripName(CHOOSE k \in 1..Len(aggregated_trips_map) :
                              aggregated_trips_map[k].key =
                                << sorted[j].origin, sorted[j].destination, sorted[j].start >>),
                   sorted[j].origin, sorted[j].destination,
                   sorted[j].link_origin, PyStr(sorted[j].count), PyStr(sorted[j].start))]

\* sequential names in the final order, start converted to a string
final_trips_for_xml(sorted) ==
    [j \in 1..Len(sorted) |->
        TripRecord(TripName(j), sorted[j].origin, sorted[j].destination,
                   sorted[j].link_origin, PyStr(sorted[j].count), PyStr(sorted[j].start))]

\* the end of generate_aggregated_and_sorted_trips and main's check of its result
GroupFinish ==
    /\ pc = "sample"
    /\ args.variant = "group"
    /\ i = args.num_trips
    /\ final_trips' = final_trips_for_xml(SortByStart(processed_trips_list(aggregated_trips_map)))
    /\ IF final_trips' = << >> /\ args.num_trips > 0
       THEN Exit1
       ELSE pc' = "open" /\ status' = status
    /\ UNCHANGED << args, fileVars, loaderVars, slotVars, tripVars,
                    aggregated_trips_map, raw, out >>

\* one iteration of the loop of write_trips_to_xml_iterative
WriteTripGroup ==
    /\ pc = "write_list"
    /\ i < Len(final_trips)
    /\ \/ /\ out' = Append(out, final_trips[i + 1])
          /\ i' = i + 1
          /\ UNCHANGED << pc, status >>
       \/ /\ ReturnFalse
          /\ UNCHANGED << out, i >>
    /\ UNCHANGED << args, fileVars, loaderVars, slotVars, origin_node, link_origin,
                    destination_node, attempts, groupVars >>

-----------------------------------------------------------------------------
(* The end of the run *)

\* the closing tag is written and the file closed; the run succeeds
CloseOutput ==
    /\ \/ pc = "sample" /\ args.variant # "group" /\ i = args.num_trips
       \/ pc = "write_list" /\ i = Len(final_trips)
    /\ \/ /\ file' = "complete"
          /\ pc' = "done"
          /\ status' = "success"
       \/ /\ ReturnFalse
          /\ UNCHANGED file
    /\ UNCHANGED << args, opened, removal, loaderVars, slotVars, tripVars, groupVars, out >>

\* mutant: main exits without trying to remove the output file
Cleanup_NoRemove ==
    /\ pc = "cleanup"
    /\ file' = file /\ removal' = "nothing_to_remove"
    /\ Exit1
    /\ UNCHANGED << args, opened, loaderVars, slotVars, tripVars, groupVars, out >>

\* main, "if not success": remove the output file if it exists, then sys.exit(1)
Cleanup ==
    /\ pc = "cleanup"
    /\ IF file # "absent"
       THEN \/ file' = "absent" /\ removal' = "removed"
            \/ file' = file /\ removal' = "remove_failed"     \* os.remove raises OSError
       ELSE file' = file /\ removal' = "nothing_to_remove"
    /\ Exit1
    /\ UNCHANGED << args, opened, loaderVars, slotVars, tripVars, groupVars, out >>

Next ==
    \/ ValidateArgs
    \/ ParseTimeSlots
    \/ LoadMissingFile
    \/ LoadEvent
    \/ LoadReturn
    \/ CheckNetwork
    \/ GenerateStart
    \/ AllocateSlot
    \/ AllocateFinish
    \/ OpenOutput
    \/ SampleTripBasic
    \/ RedrawDestination
    \/ WriteTripBasic
    \/ SampleTripSegmented
    \/ RedrawDestinationSegmented
    \/ WriteTripSegmented
    \/ SampleTripGroup
    \/ AggregateTrip
    \/ GroupFinish
    \/ WriteTripGroup
    \/ CloseOutput
    \/ Cleanup

Spec == Init /\ [][Next]_vars

\* the script always takes its next step, and a random draw that can change
\* the state eventually does (a draw that returns the same value is a
\* stuttering step)
FairSpec == FairInit /\ [][Next]_vars /\ WF_vars(Next)

-----------------------------------------------------------------------------
(* Properties *)

ExitStatus == CASE status = "success" -> 0
                [] status \in { "failed", "uncaught" } -> 1
                [] OTHER -> -1

IsValidOrigin(n) ==
    n \in Range(node_ids) /\ n \in DOMAIN outgoing_links /\ outgoing_links[n] # << >>

CountEqualOD(trips) ==
    Cardinality({ k \in 1..Len(trips) : trips[k].origin = trips[k].destination })

\* C1: in the basic and the segmented generator on a network with at least two
\* nodes, every record written has a valid origin (a listed node with at least
\* one outgoing link) and a link_origin taken from that origin's outgoing
\* links, and a successful run has written exactly num_trips records.
C1_UnaggregatedRecords ==
    (args.variant \in { "basic", "segmented" } /\ Len(node_ids) >= 2) =>
        /\ \A k \in 1..Len(out) :
              /\ IsValidOrigin(out[k].origin)
              /\ out[k].link_origin \in Range(outgoing_links[out[k].origin])
        /\ status = "success" => Len(out) = args.num_trips

C1_Witness ==
    /\ args.variant = "basic" /\ status = "success"
    /\ Len(node_ids) >= 2 /\ Len(out) >= 2
    /\ \E j, k \in 1..Len(out) : out[j].link_origin # out[k].link_origin

\* C2: once the segmented generator has started to build the start-time pool,
\* the building ends with a pool of exactly num_trips start times, for every
\* slot list parse_time_slots_json accepted.
C2_PoolLengthExact ==
    (args.variant = "segmented" /\ slot_i >= 1 /\ pc # "allocate") =>
        Len(all_trip_start_times) = args.num_trips

\* C3: a successful segmented run on a network with at least two nodes has
\* written exactly floor(num_trips * percentage_od_equal) trips with
\* origin = destination; on a single-node network all num_trips trips are.
C3_OdEqualCount ==
    (args.variant = "segmented" /\ status = "success") =>
        CountEqualOD(out) =
            IF Len(node_ids) >= 2
            THEN PyInt(<< args.num_trips * args.percentage_od_equal[1],
                          args.percentage_od_equal[2] >>)
            ELSE args.num_trips

RawKeys == { raw[j].key : j \in 1..Len(raw) }
RawCount(key) == Cardinality({ j \in 1..Len(raw) : raw[j].key = key })
KeyOfRecord(rec) == << rec.origin, rec.destination, IntOfStr(rec.start) >>

RECURSIVE SumOfCounts(_)
SumOfCounts(trips) ==
    IF trips = << >> THEN 0
    ELSE IntOfStr(trips[1].count) + SumOfCounts(Tail(trips))

\* one record per raw key, carrying the number of raw trips with that key
AggregatesRaw(trips) ==
    /\ Len(trips) = Cardinality(RawKeys)
    /\ \A key \in RawKeys :
          \E k \in 1..Len(trips) :
             /\ KeyOfRecord(trips[k]) = key
             /\ IntOfStr(trips[k].count) = RawCount(key)
             /\ \A m \in 1..Len(trips) : KeyOfRecord(trips[m]) = key => m = k
    /\ SumOfCounts(trips) = Len(raw)

\* C4: in the aggregating generator the map holds, after every raw draw, one
\* entry per distinct key (origin, destination, start) whose count is the
\* number of raw trips drawn with that key; the list handed to the writer and
\* the output of a successful run hold exactly one record per key with that
\* count, and the counts add up to num_trips.
C4_Aggregation ==
    args.variant = "group" =>
        /\ Len(aggregated_trips_map) = Cardinality(RawKeys)
        /\ \A j \in 1..Len(aggregated_trips_map) :
              /\ aggregated_trips_map[j].key \in RawKeys
              /\ aggregated_trips_map[j].count = RawCount(aggregated_trips_map[j].key)
        /\ final_trips # << >> => AggregatesRaw(final_trips)
        /\ status = "success" =>
              /\ AggregatesRaw(out)
              /\ SumOfCounts(out) = args.num_trips

C4_Witness ==
    /\ args.variant = "group" /\ status = "success"
    /\ Len(out) >= 2
    /\ \E k \in 1..Len(out) : IntOfStr(out[k].count) >= 2

IsSortedByStart(trips) ==
    \A j, k \in 1..Len(trips) :
        j < k => IntOfStr(trips[j].start) <= IntOfStr(trips[k].start)

\* C5: in the aggregating generator the records handed to the writer, and the
\* records written so far, are in non-decreasing order of their start time.
C5_OutputSortedByStart ==
    args.variant = "group" => IsSortedByStart(final_trips) /\ IsSortedByStart(out)

C5_Witness ==
    /\ args.variant = "group" /\ status = "success"
    /\ Len(out) >= 2
    /\ raw[1].key[3] > raw[2].key[3]
    /\ Len(out[1].start) = 1 /\ Len(out[Len(out)].start) = 2

\* C6: every start time written lies in [0, max_time]; in the segmented
\* generator it also lies in [start_sec, min(end_sec, max_time)] of one of the
\* parsed slots.
C6_StartTimesInRange ==
    \A k \in 1..Len(out) :
        LET t == IntOfStr(out[k].start)
        IN  /\ 0 <= t /\ t <= args.max_time
            /\ args.variant = "segmented" =>
                  \E j \in 1..Len(time_slot_definitions.slots) :
                     /\ time_slot_definitions.slots[j].start_sec <= t
                     /\ t <= Min(time_slot_definitions.slots[j].end_sec, args.max_time)

\* a start time at the clipped end of a slot that reaches beyond max_time
C6_Witness ==
    /\ args.variant = "segmented"
    /\ \E k \in 1..Len(out) :
          /\ IntOfStr(out[k].start) = args.max_time
          /\ \E j \in 1..Len(time_slot_definitions.slots) :
                /\ time_slot_definitions.slots[j].start_sec <= args.max_time
                /\ time_slot_definitions.slots[j].end_sec > args.max_time

\* C7: when the loaded node list has exactly one node, every record written by
\* any of the three generators has origin = destination = that node.
C7_SingleNodeNetwork ==
    Len(node_ids) = 1 =>
        \A k \in 1..Len(out) :
            out[k].origin = node_ids[1] /\ out[k].destination = node_ids[1]

C7_Witness ==
    /\ Len(node_ids) = 1
    /\ args.variant = "segmented" /\ args.percentage_od_equal = <<0, 1>>
    /\ status = "success" /\ Len(out) >= 2

\* the loop over the events ended without a parse error
LoadCompleted ==
    /\ args.network_file.exists
    /\ pos > Len(args.network_file.events)
    /\ loadResult # "pending"

NoNodeFound == LoadCompleted /\ node_ids = << >>

NoValidOrigin ==
    /\ LoadCompleted
    /\ node_ids # << >> /\ DOMAIN outgoing_links # {}
    /\ \A n \in Range(node_ids) : ~IsValidOrigin(n)

HasRegion(doc, tag) ==
    \E j \in 1..Len(doc.events) : doc.events[j].ev = "start" /\ doc.events[j].tag = tag

\* unparseable, or without the nodes/links structure
MalformedNetwork ==
    /\ args.network_file.exists
    /\ \/ \E j \in 1..Len(args.network_file.events) :
             args.network_file.events[j].ev = "error"
       \/ ~HasRegion(args.network_file, "nodes")
       \/ ~HasRegion(args.network_file, "links")

\* C9 as stated: on a malformed network or a network with zero nodes the run
\* ends with exit status 1 and no file exists at the output path.
C9_NoFileAtOutputPath ==
    (pc = "done" /\ (MalformedNetwork \/ NoNodeFound)) =>
        ExitStatus = 1 /\ file = "absent"

\* C9 amended: on a malformed network or a network with zero nodes the run
\* never opens the output path and ends with exit status 1; no file written by
\* this run exists at the end, and the path is empty if it was empty before
\* (a file that was there before the run may still be there).
C9_NoOutputWritten ==
    (MalformedNetwork \/ NoNodeFound) =>
        /\ ~opened
        /\ file \in { "absent", "old" }
        /\ ~args.output_existed => file = "absent"
        /\ pc = "done" => ExitStatus = 1

C9_Witness ==
    /\ pc = "done" /\ ExitStatus = 1
    /\ MalformedNetwork
    /\ args.output_existed /\ file = "old"

\* C10: a run that fails after it opened the output file tries to remove the
\* file and exits with status 1 by sys.exit, also when the removal fails (the
\* file then stays).
C10_CleanupAfterFailure ==
    (pc = "done" /\ opened /\ status # "success") =>
        /\ status = "failed" /\ ExitStatus = 1
        /\ removal \in { "removed", "remove_failed" }
        /\ removal = "removed" <=> file = "absent"

C10_Witness ==
    /\ pc = "done" /\ opened /\ status = "failed"
    /\ removal = "remove_failed" /\ file = "partial"
    /\ Len(out) >= 1


\* C11: in every generator the k-th record written is named trip_k; in the
\* group generator the names follow the final list sorted by start, not the
\* order in which the keys were first generated.
C11_SequentialNames ==
    /\ \A k \in 1..Len(out) : out[k].name = << "trip_" >> \o PyStr(k)
    /\ \A k \in 1..Len(final_trips) : final_trips[k].name = << "trip_" >> \o PyStr(k)
    /\ \A j, k \in 1..Len(out) : j # k => out[j].name # out[k].name

\* two records are written whose keys were first generated in the other order
C11_Witness ==
    /\ args.variant = "group"
    /\ Len(out) >= 2
    /\ Len(aggregated_trips_map) >= 2
    /\ aggregated_trips_map[1].key[3] > aggregated_trips_map[2].key[3]
    /\ KeyOfRecord(out[1]) = aggregated_trips_map[2].key
    /\ KeyOfRecord(out[2]) = aggregated_trips_map[1].key


\* C12: in the group generator the link_origin of a record is the link sampled
\* for the first raw trip with that key; later raw trips with the key raise the
\* count and leave link_origin alone; the link is an outgoing link of the origin.
FirstRawWithKey(key) == CHOOSE j \in 1..Len(raw) :
                          /\ raw[j].key = key
                          /\ \A h \in 1..(j - 1) : raw[h].key # key

C12_FirstLinkKept ==
    /\ \A j \in 1..Len(aggregated_trips_map) :
          LET e == aggregated_trips_map[j]
          IN  /\ e.link_origin = raw[FirstRawWithKey(e.key)].link_origin
              /\ e.key[1] \in DOMAIN outgoing_links
              /\ e.link_origin \in Range(outgoing_links[e.key[1]])
    /\ \A k \in 1..Len(final_trips) :
          /\ final_trips[k].link_origin =
                raw[FirstRawWithKey(KeyOfRecord(final_trips[k]))].link_origin
          /\ final_trips[k].link_origin \in Range(outgoing_links[final_trips[k].origin])
    /\ args.variant = "group" =>
          \A k \in 1..Len(out) :
             out[k].link_origin = raw[FirstRawWithKey(KeyOfRecord(out[k]))].link_origin

\* a written record whose key was generated again later with another link
C12_Witness ==
    /\ args.variant = "group"
    /\ \E k \in 1..Len(out) :
         \E h \in 1..Len(raw) :
            /\ raw[h].key = KeyOfRecord(out[k])
            /\ raw[h].link_origin # out[k].link_origin
            /\ IntOfStr(out[k].count) >= 2


\* C13: the writer escapes every attribute value, so the document stays
\* well-formed when an identifier contains &, <, > or the double quote that
\* delimits the attribute: each written line is "  <trip ", a list of
\* name="value" attributes separated by one space, and "/>", where a value has
\* no double quote and no <, and every & in it starts a character reference.
AttrNames == { "name", "origin", "destination", "link_origin", "count", "start",
               "mode", "digital_rails_capable" }

References == { << "&", "a", "m", "p", ";" >>, << "&", "l", "t", ";" >>,
                << "&", "g", "t", ";" >>, << "&", "q", "u", "o", "t", ";" >>,
                << "&", "a", "p", "o", "s", ";" >> }

\* the position of the first double quote of s at or after position j, or 0
RECURSIVE NextQuote(_, _)
NextQuote(s, j) ==
    IF j > Len(s) THEN 0
    ELSE IF s[j] = "\"" THEN j
    ELSE NextQuote(s, j + 1)

WellFormedValue(v) ==
    \A j \in 1..Len(v) :
       /\ v[j] # "<"
       /\ v[j] = "&" => \E r \in References :
                           /\ j + Len(r) - 1 <= Len(v)
                           /\ SubSeq(v, j, j + Len(r) - 1) = r

RECURSIVE WellFormedAttributes(_)
WellFormedAttributes(s) ==
    /\ Len(s) >= 4
    /\ s[1] \in AttrNames
    /\ s[2] = "="
    /\ s[3] = "\""
    /\ LET close == NextQuote(s, 4)
       IN  /\ close > 0
           /\ WellFormedValue(SubSeq(s, 4, close - 1))
           /\ \/ close = Len(s)
              \/ /\ close + 1 < Len(s)
                 /\ s[close + 1] = " "
                 /\ WellFormedAttributes(SubSeq(s, close + 2, Len(s)))

WellFormedLine(line) ==
    /\ Len(line) >= 3
    /\ line[1] = "  <trip "
    /\ line[Len(line)] = "/>\n"
    /\ WellFormedAttributes(SubSeq(line, 2, Len(line) - 1))

C13_WellFormedOutput == \A k \in 1..Len(out) : WellFormedLine(TripLines[k])


\* C14: in the segmented generator, for a trip whose O=D flag is false, the
\* destination is re-drawn at most len(node_ids) + 5 times and then drawn once
\* from the nodes other than the origin: with at least two distinct node ids
\* the written destination differs from the origin, and it equals the origin
\* only when no node id other than the origin exists.
C14_DestinationDiffers ==
    args.variant = "segmented" =>
       /\ attempts <= Len(node_ids) + 5
       /\ \A k \in 1..Len(out) :
             ~trip_is_od_equal_flags[k] =>
                /\ Cardinality(Range(node_ids)) >= 2 => out[k].destination # out[k].origin
                /\ out[k].destination = out[k].origin =>
                      Range(node_ids) \ { out[k].origin } = {}

\* every re-draw of the bounded loop returned the origin: the next step draws
\* from other_nodes
C14_Witness ==
    /\ args.variant = "segmented"
    /\ pc = "destination"
    /\ ~trip_is_od_equal_flags[i + 1]
    /\ Cardinality(Range(node_ids)) >= 2
    /\ attempts = Len(node_ids) + 5
    /\ destination_node = origin_node
    /\ Len(out) >= 1
    /\ ~trip_is_od_equal_flags[1]
    /\ out[1].destination # out[1].origin


\* C15: in the pool the segmented generator builds, the number of entries drawn
\* from each slot but the last is round(num_trips * percentage) and the number
\* drawn from the last slot is num_trips minus the sum of those quotas.
PoolReturned ==
    /\ args.variant = "segmented"
    /\ time_slot_definitions.ok
    /\ slot_i > Len(time_slot_definitions.slots)
    /\ pc # "allocate"

\* round(num_trips * percentage) of slot j
Quota(j) ==
    PyRound(<< args.num_trips * time_slot_definitions.slots[j].percentage[1],
               time_slot_definitions.slots[j].percentage[2] >>)

\* the sum of the quotas of slots 1 .. j
RECURSIVE QuotaSum(_)
QuotaSum(j) == IF j = 0 THEN 0 ELSE QuotaSum(j - 1) + Quota(j)

\* the entries of the pool that lie in the range slot j was drawn from (the
\* ranges of the slots of a returned list are disjoint)
DrawnFromSlot(j) ==
    LET slot == time_slot_definitions.slots[j]
    IN  Cardinality({ h \in 1..Len(all_trip_start_times) :
                        /\ slot.start_sec <= all_trip_start_times[h]
                        /\ all_trip_start_times[h] <= Min(slot.end_sec, args.max_time) })

C15_QuotaPerSlot ==
    PoolReturned =>
       LET last == Len(time_slot_definitions.slots)
       IN  /\ \A j \in 1..(last - 1) : DrawnFromSlot(j) = Quota(j)
           /\ DrawnFromSlot(last) = args.num_trips - QuotaSum(last - 1)

\* C15, amended: the counts are the quotas as long as the quotas of the slots
\* before the last sum to at most num_trips; when they sum to more, the pool is
\* cut to its first num_trips entries in slot order, so the last slot
\* contributes nothing and a slot before it contributes what is left of
\* num_trips after the slots ahead of it, at most its quota.
LeftFor(j) ==
    IF args.num_trips - QuotaSum(j - 1) > 0 THEN args.num_trips - QuotaSum(j - 1) ELSE 0

C15_QuotaPerSlotUntilFull ==
    PoolReturned =>
       LET last == Len(time_slot_definitions.slots)
       IN  /\ \A j \in 1..(last - 1) : DrawnFromSlot(j) = Min(Quota(j), LeftFor(j))
           /\ DrawnFromSlot(last) = LeftFor(last)
           /\ QuotaSum(last - 1) <= args.num_trips =>
                 /\ \A j \in 1..(last - 1) : DrawnFromSlot(j) = Quota(j)
                 /\ DrawnFromSlot(last) = args.num_trips - QuotaSum(last - 1)

\* a pool was returned although the quotas before the last slot exceed num_trips
C15_Witness ==
    /\ PoolReturned
    /\ Len(time_slot_definitions.slots) >= 2
    /\ QuotaSum(Len(time_slot_definitions.slots) - 1) > args.num_trips
    /\ Len(all_trip_start_times) = args.num_trips


\* C16: parse_time_slots_json returns an error whenever, in the input sorted by
\* start, some slot starts (in seconds) at or before the end of the slot ahead
\* of it; and every list it returns is sorted by start_sec with
\* end_sec < start_sec of the next slot, whatever the order of the input.
HasOverlap(sorted) ==
    \E k \in 2..Len(sorted) : start_sec_of(sorted[k]) <= end_sec_of(sorted[k - 1])

\* main passed its checks of the arguments and called parse_time_slots_json
SlotsParsed ==
    /\ args.variant = "segmented"
    /\ pc \notin { "main", "time_slots" }
    /\ args.num_trips > 0
    /\ args.max_time >= 0
    /\ RLe(RInt(0), args.percentage_od_equal) /\ RLe(args.percentage_od_equal, RInt(1))

ReturnedSlotsDisjoint ==
    time_slot_definitions.ok =>
       \A k \in 1..(Len(time_slot_definitions.slots) - 1) :
          /\ time_slot_definitions.slots[k].start_sec <=
                time_slot_definitions.slots[k + 1].start_sec
          /\ time_slot_definitions.slots[k].end_sec <
                time_slot_definitions.slots[k + 1].start_sec

C16_OverlapRejected ==
    SlotsParsed =>
       /\ HasOverlap(SortByStartHour(args.time_slots)) => ~time_slot_definitions.ok
       /\ ReturnedSlotsDisjoint


\* C17: every slot parse_time_slots_json returns satisfies
\* 0 <= start_sec <= end_sec (inputs have start_hour >= 0 and
\* end_hour > start_hour, fractional hours included), so the range each draw is
\* made from is not empty.
C17_SlotRangeNonEmpty ==
    (SlotsParsed /\ time_slot_definitions.ok) =>
       \A k \in 1..Len(time_slot_definitions.slots) :
          /\ 0 <= time_slot_definitions.slots[k].start_sec
          /\ time_slot_definitions.slots[k].start_sec <= time_slot_definitions.slots[k].end_sec
          /\ time_slot_definitions.slots[k].start_sec <=
                slot_actual_end_s(time_slot_definitions.slots[k], args.max_time)


\* C18: parse_time_slots_json drops, without failing, the slots whose start_sec
\* exceeds the maximum simulation time; it fails when no slot remains;
\* otherwise the percentages it returns sum to 1.0 within 0.001: the sum is
\* taken over the retained slots only and each percentage is divided by it
\* when it is outside the tolerance.
ValidSlotDef(s) ==
    /\ RLe(RInt(0), s.start_hour)
    /\ RLt(s.start_hour, s.end_hour)
    /\ RLt(RInt(0), s.percentage)
    /\ RLe(s.percentage, RInt(1))

\* the slots of the sorted input that start within the maximum time
RetainedInput ==
    SelectSeq(SortByStartHour(args.time_slots),
              LAMBDA s : start_sec_of(s) <= args.max_time)

RECURSIVE Gcd(_, _)
Gcd(a, b) == IF b = 0 THEN a ELSE Gcd(b, a % b)

\* the fraction in lowest terms (numerator >= 0, denominator > 0)
Lowest(x) == << x[1] \div Gcd(x[1], x[2]), x[2] \div Gcd(x[1], x[2]) >>

RECURSIVE PercentageSum(_)
PercentageSum(slots) ==
    IF slots = << >> THEN RInt(0)
    ELSE Lowest(RAdd(PercentageSum(SubSeq(slots, 1, Len(slots) - 1)),
                     Lowest(slots[Len(slots)].percentage)))

WithinTolerance(x) == RLe(<< 999, 1000 >>, x) /\ RLe(x, << 1001, 1000 >>)

REq(a, b) == a[1] * b[2] = b[1] * a[2]

C18_DropAndNormalise ==
    SlotsParsed =>
       LET sorted == SortByStartHour(args.time_slots)
           returned == time_slot_definitions.slots
           total == PercentageSum(RetainedInput)
       IN  /\ ( /\ \A k \in 1..Len(sorted) : ValidSlotDef(sorted[k])
                /\ ~HasOverlap(sorted) )
                  => (time_slot_definitions.ok <=> RetainedInput # << >>)
           /\ RetainedInput = << >> => ~time_slot_definitions.ok
           /\ time_slot_definitions.ok =>
                 /\ Len(returned) = Len(RetainedInput)
                 /\ \A k \in 1..Len(returned) :
                       /\ returned[k].start_sec = start_sec_of(RetainedInput[k])
                       /\ returned[k].end_sec = end_sec_of(RetainedInput[k])
                       /\ returned[k].start_sec <= args.max_time
                       /\ REq(Lowest(returned[k].percentage),
                              IF WithinTolerance(total)
                              THEN RetainedInput[k].percentage
                              ELSE RDiv(RetainedInput[k].percentage, total))
                 /\ WithinTolerance(PercentageSum(returned))

\* a slot was dropped and the percentages of the retained ones were divided by
\* their sum
C18_Witness ==
    /\ SlotsParsed
    /\ time_slot_definitions.ok
    /\ Len(time_slot_definitions.slots) < Len(args.time_slots)
    /\ ~WithinTolerance(PercentageSum(RetainedInput))
    /\ \E k \in 1..Len(time_slot_definitions.slots) :
          ~REq(time_slot_definitions.slots[k].percentage, RetainedInput[k].percentage)


\* C19: the node list of the index the loader returns contains each node id at
\* most once, also when the description repeats a node id.
C19_NodeIdsDistinct ==
    loadResult = "index" =>
       \A j, k \in 1..Len(node_ids) : j # k => node_ids[j] # node_ids[k]

C21_RedrawTerminates ==
    (pc = "destination" /\ args.variant \in { "basic", "group" }) ~> (pc # "destination")


\* C22: a run that fails before it has opened the output file leaves a file
\* that already existed at the output path unchanged; only a file this run
\* started writing is removed.
C22_ExistingFileKept ==
    /\ (args.output_existed /\ ~opened) => file = "old"
    /\ removal = "removed" => opened


\* C23: while the loader processes the start/end events, context is 'nodes'
\* exactly when an opened nodes element is not yet closed and 'links' exactly
\* when an opened links element is not yet closed, so a node id is recorded iff
\* the node element lies inside a nodes region and a link iff it lies inside a
\* links region, for every nesting and ordering of nodes/links elements.
Events == args.network_file.events

\* the number of elements with the tag that are open before event q
RECURSIVE OpenCount(_, _)
OpenCount(tag, q) ==
    IF q <= 1 THEN 0
    ELSE OpenCount(tag, q - 1) +
         (IF Events[q - 1].tag # tag THEN 0
          ELSE IF Events[q - 1].ev = "start" THEN 1
          ELSE IF Events[q - 1].ev = "end" THEN -1 ELSE 0)

IsRecordable(q, tag) ==
    /\ Events[q].ev = "start"
    /\ Events[q].tag = tag
    /\ Events[q].id # ""
    /\ tag = "link" => Events[q].from # ""

\* the ids of the recordable elements among the events before q whose position
\* is in the set inside, in document order
RECURSIVE IdsBefore(_, _, _)
IdsBefore(q, tag, inside) ==
    IF q <= 1 THEN << >>
    ELSE IdsBefore(q - 1, tag, inside) \o
         (IF IsRecordable(q - 1, tag) /\ (q - 1) \in inside
          THEN << Events[q - 1].id >> ELSE << >>)

\* all the link ids stored in outgoing_links
LinkIdsRecorded == UNION { Range(outgoing_links[k]) : k \in DOMAIN outgoing_links }

\* the positions that lie inside an open nodes (links) element
InsideNodes == { q \in 1..(Len(Events) + 1) : OpenCount("nodes", q) > 0 }
InsideLinks == { q \in 1..(Len(Events) + 1) : OpenCount("links", q) > 0 }

Loading == args.network_file.exists /\ pc = "load" /\ pos <= Len(Events) + 1

C23_ContextTracksRegions ==
    Loading =>
       /\ context = "nodes" <=> pos \in InsideNodes
       /\ context = "links" <=> pos \in InsideLinks
       /\ node_ids = IdsBefore(pos, "node", InsideNodes)
       /\ LinkIdsRecorded = Range(IdsBefore(pos, "link", InsideLinks))


\* C23, amended: context is the tag of the most recent nodes/links start event
\* when no nodes/links end event has followed it, and None otherwise; a node
\* (link) is recorded iff context is 'nodes' ('links') at its start event.
\* When no nodes or links element is open inside another one this is the same
\* as lying inside an open nodes (links) element.
IsBoundary(p) == Events[p].tag \in { "nodes", "links" } /\ Events[p].ev \in { "start", "end" }

ContextAt(q) ==
    LET before == { p \in 1..(q - 1) : IsBoundary(p) }
        last == CHOOSE p \in before : \A r \in before : r <= p
    IN  IF before = {} THEN "None"
        ELSE IF Events[last].ev = "start" THEN Events[last].tag
        ELSE "None"

FlagNodes == { q \in 1..(Len(Events) + 1) : ContextAt(q) = "nodes" }
FlagLinks == { q \in 1..(Len(Events) + 1) : ContextAt(q) = "links" }

\* up to event q no nodes or links element is open inside another one
NotNested(q) ==
    \A p \in 1..q : OpenCount("nodes", p) + OpenCount("links", p) <= 1

C23_ContextFollowsLastBoundary ==
    Loading =>
       /\ context = ContextAt(pos)
       /\ node_ids = IdsBefore(pos, "node", FlagNodes)
       /\ LinkIdsRecorded = Range(IdsBefore(pos, "link", FlagLinks))
       /\ NotNested(pos) =>
             /\ context = "nodes" <=> pos \in InsideNodes
             /\ context = "links" <=> pos \in InsideLinks
             /\ node_ids = IdsBefore(pos, "node", InsideNodes)
             /\ LinkIdsRecorded = Range(IdsBefore(pos, "link", InsideLinks))

\* a node element inside an open nodes element was read while context was not
\* 'nodes', and was skipped
C23_Witness ==
    /\ Loading
    /\ \E q \in 1..(pos - 1) :
          /\ IsRecordable(q, "node")
          /\ q \in InsideNodes
          /\ q \notin FlagNodes
          /\ Events[q].id \notin Range(node_ids)

=============================================================================
